---- MODULE Spec2Model ----
(***************************************************************************)
(* Recording session controller of frontend/script.js: a button toggles    *)
(* microphone capture, captured chunks are buffered in a global array, the *)
(* stop event uploads the buffer, and the hex-encoded reply is decoded and *)
(* assigned to the playback element.                                       *)
(*                                                                         *)
(* One action is one run-to-completion step of the browser event loop: the *)
(* synchronous part of a handler up to its next await, or the continuation *)
(* after an await.  The platform (getUserMedia, MediaRecorder, fetch) is   *)
(* the environment; its answers are the inputs of the actions.             *)
(***************************************************************************)
EXTENDS Integers, Sequences, FiniteSets, TLC

VARIABLES
    mediaRecorder,   \* script.js:1   0 = undefined, else index into recorders
    recorders,       \* every MediaRecorder constructed so far (script.js:7)
    chunks,          \* script.js:2   the global chunk buffer
    awaiting,        \* number of onclick calls suspended at getUserMedia (line 6)
    dispatching,     \* recorder whose stop task is between its two events, or 0
    uploads,         \* every sendAudio call so far, in the order issued; the field
                     \* toggled is history: a click ran while the request was in flight
    src,             \* responseAudio.src: the object URL and the bytes behind it
    denied           \* onclick calls whose promise rejected at getUserMedia, unhandled

vars == <<mediaRecorder, recorders, chunks, awaiting, dispatching, uploads, src, denied>>

----------------------------------------------------------------------------
(* Bounds of the model *)

\* getUserMedia calls in all: granted, refused or outstanding
MaxRequests == 2
\* buffer length up to which the platform delivers chunks of a running
\* capture (the chunk that a stop flushes is always delivered)
MaxChunks == 1
\* longest "audio" string drawn for the decoder on its own
MaxHexLen == 3

----------------------------------------------------------------------------
(* Strings are sequences of one-character strings. *)

RECURSIVE Strings(_, _)
Strings(alphabet, n) ==
    IF n = 0 THEN {<<>>}
    ELSE LET shorter == Strings(alphabet, n - 1)
         IN  shorter \cup {Append(s, c) : s \in {t \in shorter : Len(t) = n - 1}, c \in alphabet}

LowerHex == <<"0", "1", "2", "3", "4", "5", "6", "7", "8", "9", "a", "b", "c", "d", "e", "f">>
UpperHex == <<"0", "1", "2", "3", "4", "5", "6", "7", "8", "9", "A", "B", "C", "D", "E", "F">>

HexDigits == {LowerHex[i] : i \in 1..16} \cup {UpperHex[i] : i \in 1..16}

\* the value of one radix-16 digit, as parseInt reads it (case-insensitive)
DigitVal(c) == CHOOSE v \in 0..15 : LowerHex[v + 1] = c \/ UpperHex[v + 1] = c

\* parseInt's result when no digit can be read; no 1- or 2-character string
\* parses to this number
NaN == 4096

WhiteSpace == {" ", "\t", "\n", "\r"}

\* characters the regular expression's dot does not match
LineTerminators == {"\n", "\r"}

RECURSIVE TrimStart(_)
TrimStart(s) ==
    IF s # <<>> /\ Head(s) \in WhiteSpace THEN TrimStart(Tail(s)) ELSE s

\* value of the longest prefix of radix-16 digits of s, given the value acc of
\* the digits read so far and whether any was read
RECURSIVE DigitPrefix(_, _, _)
DigitPrefix(s, acc, any) ==
    IF s # <<>> /\ Head(s) \in HexDigits
    THEN DigitPrefix(Tail(s), 16 * acc + DigitVal(Head(s)), TRUE)
    ELSE IF any THEN acc ELSE NaN

\* parseInt(byte, 16) of script.js:31
ParseInt16(str) ==
    LET t      == TrimStart(str)
        neg    == t # <<>> /\ Head(t) = "-"
        signed == t # <<>> /\ Head(t) \in {"-", "+"}
        u      == IF signed THEN Tail(t) ELSE t
        prefix == Len(u) >= 2 /\ u[1] = "0" /\ u[2] \in {"x", "X"}
        v      == IF prefix THEN SubSeq(u, 3, Len(u)) ELSE u
        n      == DigitPrefix(v, 0, FALSE)
    IN  IF n = NaN THEN NaN ELSE IF neg THEN 0 - n ELSE n

\* String.prototype.match(/.{1,2}/g) of script.js:31: the successive greedy
\* matches of one or two characters other than line terminators
RECURSIVE MatchPairs(_)
MatchPairs(s) ==
    IF s = <<>> THEN <<>>
    ELSE IF s[1] \in LineTerminators THEN MatchPairs(Tail(s))
    ELSE IF Len(s) >= 2 /\ s[2] \notin LineTerminators
         THEN <<SubSeq(s, 1, 2)>> \o MatchPairs(SubSeq(s, 3, Len(s)))
         ELSE <<SubSeq(s, 1, 1)>> \o MatchPairs(Tail(s))

\* match returns null, not an empty array, when nothing matches
MatchIsNull(s) == MatchPairs(s) = <<>>

\* storing a number in a Uint8Array (script.js:30): NaN becomes 0, anything
\* else is reduced modulo 2^8
ToUint8(n) == IF n = NaN THEN 0 ELSE n % 256

\* as DecodeHex, had the pattern been /.{2}/g: a lone last character is dropped
DecodeHexWholePairs(s) ==
    LET groups == SelectSeq(MatchPairs(s), LAMBDA g : Len(g) = 2)
    IN  [i \in 1..Len(groups) |-> ToUint8(ParseInt16(groups[i]))]

\* script.js:30-32, for a string on which match does not return null
DecodeHex(s) ==
    LET groups == MatchPairs(s)
    IN  [i \in 1..Len(groups) |-> ToUint8(ParseInt16(groups[i]))]

----------------------------------------------------------------------------
(* Values the platform and the server hand to the handlers *)

\* contents of the chunks the recorder delivers (e.data)
ChunkData == {<<1>>, <<2, 3>>}

NoBody  == [kind |-> "none", audio |-> <<>>]
\* a response body that is not JSON
NotJson == [kind |-> "notjson", audio |-> <<>>]
\* a JSON body with no string under "audio"
NoAudio == [kind |-> "noaudio", audio |-> <<>>]
Audio(s) == [kind |-> "audio", audio |-> s]

\* "audio" strings the server answers with in the controller's specification
SampleAudio == {<<"0", "a", "f", "f", "0", "1">>, <<"4", "8">>}

ResponseBodies == {NotJson, NoAudio} \cup {Audio(s) : s \in SampleAudio}

\* the characters of the "audio" strings drawn for the decoder on its own:
\* every lowercase digit, an uppercase one, and characters that are no digit
HexAlphabet == {LowerHex[i] : i \in 1..16} \cup {"F", "g", "x", "-", " ", "\n"}

HexBodies == {Audio(s) : s \in Strings(HexAlphabet, MaxHexLen)}

----------------------------------------------------------------------------
(* The controller *)

\* new Blob(chunks) of script.js:20: the chunks' bytes, concatenated in order
RECURSIVE Blob(_)
Blob(buf) == IF buf = <<>> THEN <<>> ELSE Head(buf).data \o Blob(Tail(buf))

Recording(r) == recorders[r].state = "recording"

InFlight(u) == uploads[u].status \in {"fetching", "parsing"}

\* history only: the click is noted on the requests it finds in flight
NoteToggle ==
    [u \in DOMAIN uploads |->
        IF InFlight(u) THEN [uploads[u] EXCEPT !.toggled = TRUE] ELSE uploads[u]]

\* the condition of script.js:5
NoActiveCapture ==
    IF mediaRecorder = 0 THEN TRUE ELSE recorders[mediaRecorder].state = "inactive"

Init ==
    /\ mediaRecorder = 0
    /\ recorders = <<>>
    /\ chunks = <<>>
    /\ awaiting = 0
    /\ dispatching = 0
    /\ uploads = <<>>
    /\ src = [url |-> 0, bytes |-> <<>>]
    /\ denied = 0

\* as ToggleStart, had the click aborted the requests still in flight
ToggleStartAborts ==
    /\ dispatching = 0
    /\ NoActiveCapture
    /\ Len(recorders) + awaiting + denied < MaxRequests
    /\ awaiting' = awaiting + 1
    /\ uploads' = [u \in DOMAIN uploads |->
                      IF InFlight(u) THEN [uploads[u] EXCEPT !.status = "failed"]
                      ELSE uploads[u]]
    /\ UNCHANGED <<mediaRecorder, recorders, chunks, dispatching, src, denied>>

\* script.js:5-6: the click finds no active capture and suspends at
\* getUserMedia; nothing is written before the await
ToggleStart ==
    /\ dispatching = 0
    /\ NoActiveCapture
    /\ Len(recorders) + awaiting + denied < MaxRequests
    /\ awaiting' = awaiting + 1
    /\ uploads' = NoteToggle
    /\ UNCHANGED <<mediaRecorder, recorders, chunks, dispatching, src, denied>>

\* as ToggleStop, had the click called sendAudio itself right after stop()
ToggleStopSendsNow ==
    /\ dispatching = 0
    /\ ~NoActiveCapture
    /\ recorders' = [recorders EXCEPT ![mediaRecorder] =
                        [state |-> "inactive", phase |-> "stopQueued"]]
    /\ uploads' = Append(NoteToggle,
                         [rec |-> mediaRecorder, payload |-> Blob(chunks),
                          status |-> "fetching", body |-> NoBody, toggled |-> FALSE])
    /\ UNCHANGED <<mediaRecorder, chunks, awaiting, dispatching, src, denied>>

\* script.js:14-15: the click finds an active capture and calls stop(), which
\* sets the recorder's state to inactive at once and queues the task that
\* fires dataavailable and then stop
ToggleStop ==
    /\ dispatching = 0
    /\ ~NoActiveCapture
    /\ recorders' = [recorders EXCEPT ![mediaRecorder] =
                        [state |-> "inactive", phase |-> "stopQueued"]]
    /\ uploads' = NoteToggle
    /\ UNCHANGED <<mediaRecorder, chunks, awaiting, dispatching, src, denied>>

\* recordBtn.onclick up to its first suspension or its return
Toggle == ToggleStart \/ ToggleStop

\* as StreamGranted, had a new capture started from an empty buffer
StreamGrantedClears ==
    /\ dispatching = 0
    /\ awaiting > 0
    /\ awaiting' = awaiting - 1
    /\ recorders' = Append(recorders, [state |-> "recording", phase |-> "capturing"])
    /\ mediaRecorder' = Len(recorders) + 1
    /\ chunks' = <<>>
    /\ UNCHANGED <<dispatching, uploads, src, denied>>

\* script.js:6-13, the continuation once getUserMedia resolves: a new
\* recorder is constructed, stored in the global and started
StreamGranted ==
    /\ dispatching = 0
    /\ awaiting > 0
    /\ awaiting' = awaiting - 1
    /\ recorders' = Append(recorders, [state |-> "recording", phase |-> "capturing"])
    /\ mediaRecorder' = Len(recorders) + 1
    /\ UNCHANGED <<chunks, dispatching, uploads, src, denied>>

\* as StreamDenied, had a handler of the rejection reset the globals
StreamDeniedResets ==
    /\ dispatching = 0
    /\ awaiting > 0
    /\ awaiting' = awaiting - 1
    /\ denied' = denied + 1
    /\ mediaRecorder' = 0
    /\ chunks' = <<>>
    /\ UNCHANGED <<recorders, dispatching, uploads, src>>

\* script.js:6, getUserMedia rejects: the async handler's promise rejects
\* and nobody handles it
StreamDenied ==
    /\ dispatching = 0
    /\ awaiting > 0
    /\ awaiting' = awaiting - 1
    /\ denied' = denied + 1
    /\ UNCHANGED <<mediaRecorder, recorders, chunks, dispatching, uploads, src>>

\* script.js:9, the dataavailable handler of recorder r
OnDataAvailable(r, d) == chunks' = Append(chunks, [rec |-> r, data |-> d])

\* the platform delivers a chunk of a running capture
DataAvailable(r, d) ==
    /\ dispatching = 0
    /\ Recording(r)
    /\ Len(chunks) < MaxChunks
    /\ OnDataAvailable(r, d)
    /\ UNCHANGED <<mediaRecorder, recorders, awaiting, dispatching, uploads, src, denied>>

\* first half of the task stop() queued: dataavailable fires with the data
\* gathered since the last chunk.  The tasks of several stop() calls are on
\* one task source and run in the order queued, which is the order of the
\* recorders: a click stops the newest recorder only.
StopFlush(r, d) ==
    /\ r \in DOMAIN recorders
    /\ dispatching = 0
    /\ recorders[r].phase = "stopQueued"
    /\ \A q \in 1..(r - 1) : recorders[q].phase # "stopQueued"
    /\ OnDataAvailable(r, d)
    /\ recorders' = [recorders EXCEPT ![r].phase = "flushed"]
    /\ dispatching' = r
    /\ UNCHANGED <<mediaRecorder, awaiting, uploads, src, denied>>

\* script.js:19-27, sendAudio up to its await of fetch: the request carries
\* the whole buffer
SendAudio(r) ==
    uploads' = Append(uploads, [rec |-> r, payload |-> Blob(chunks),
                                status |-> "fetching", body |-> NoBody,
                                toggled |-> FALSE])

\* as StopEvent, had line 10 not registered sendAudio as the stop handler
StopEventUnhandled(r) ==
    /\ r \in DOMAIN recorders
    /\ dispatching = r
    /\ recorders[r].phase = "flushed"
    /\ recorders' = [recorders EXCEPT ![r].phase = "stopped"]
    /\ dispatching' = 0
    /\ UNCHANGED <<mediaRecorder, chunks, awaiting, uploads, src, denied>>

\* second half of the same task: stop fires, and onstop is sendAudio
\* (script.js:10)
StopEvent(r) ==
    /\ r \in DOMAIN recorders
    /\ dispatching = r
    /\ recorders[r].phase = "flushed"
    /\ SendAudio(r)
    /\ recorders' = [recorders EXCEPT ![r].phase = "stopped"]
    /\ dispatching' = 0
    /\ UNCHANGED <<mediaRecorder, chunks, awaiting, src, denied>>

\* script.js:24, fetch rejects (network failure): sendAudio's promise
\* rejects, which the status "failed" records; nothing handles it
FetchRejected(u) ==
    /\ dispatching = 0
    /\ uploads[u].status = "fetching"
    /\ uploads' = [uploads EXCEPT ![u].status = "failed"]
    /\ UNCHANGED <<mediaRecorder, recorders, chunks, awaiting, dispatching, src, denied>>

\* script.js:24-29, fetch resolves with a response whose body is b, and
\* sendAudio suspends again at res.json()
FetchResolved(u, b) ==
    /\ dispatching = 0
    /\ uploads[u].status = "fetching"
    /\ uploads' = [uploads EXCEPT ![u].status = "parsing", ![u].body = b]
    /\ UNCHANGED <<mediaRecorder, recorders, chunks, awaiting, dispatching, src, denied>>

\* res.json() rejects, data.audio has no match method, or match returns null
\* and null.map throws (script.js:29-31)
DecodeThrows(b) == b.kind # "audio" \/ MatchIsNull(b.audio)

\* as JsonSettled, had sendAudio cleared the playback source before decoding
JsonSettledClearsFirst(u) ==
    /\ dispatching = 0
    /\ uploads[u].status = "parsing"
    /\ IF DecodeThrows(uploads[u].body)
       THEN /\ uploads' = [uploads EXCEPT ![u].status = "failed"]
            /\ src' = [url |-> 0, bytes |-> <<>>]
       ELSE /\ uploads' = [uploads EXCEPT ![u].status = "done"]
            /\ src' = [url |-> u, bytes |-> DecodeHex(uploads[u].body.audio)]
    /\ UNCHANGED <<mediaRecorder, recorders, chunks, awaiting, dispatching, denied>>

\* script.js:29-35, the rest of sendAudio once res.json() settles
JsonSettled(u) ==
    /\ dispatching = 0
    /\ uploads[u].status = "parsing"
    /\ IF DecodeThrows(uploads[u].body)
       THEN /\ uploads' = [uploads EXCEPT ![u].status = "failed"]
            /\ src' = src
       ELSE /\ uploads' = [uploads EXCEPT ![u].status = "done"]
            /\ src' = [url |-> u, bytes |-> DecodeHex(uploads[u].body.audio)]
    /\ UNCHANGED <<mediaRecorder, recorders, chunks, awaiting, dispatching, denied>>

Next ==
    \/ Toggle
    \/ StreamGranted
    \/ StreamDenied
    \/ \E r \in 1..Len(recorders), d \in ChunkData : DataAvailable(r, d)
    \/ \E r \in 1..Len(recorders), d \in ChunkData : StopFlush(r, d)
    \/ \E r \in 1..Len(recorders) : StopEvent(r)
    \/ \E u \in 1..Len(uploads) : FetchRejected(u)
    \/ \E u \in 1..Len(uploads), b \in ResponseBodies : FetchResolved(u, b)
    \/ \E u \in 1..Len(uploads) : JsonSettled(u)

Spec == Init /\ [][Next]_vars

\* either event of the task some stop() has queued
StopTask ==
    \/ \E r \in DOMAIN recorders, d \in ChunkData : StopFlush(r, d)
    \/ \E r \in DOMAIN recorders : StopEvent(r)

\* The event loop runs the tasks it has queued: while the task of a stop()
\* is waiting, one such task is run.
FairSpec == Spec /\ WF_vars(StopTask)

----------------------------------------------------------------------------
(* The decoder on its own: one request has been answered, and the answer's *)
(* "audio" string ranges over every string up to MaxHexLen characters.     *)

HexInit ==
    /\ mediaRecorder = 1
    /\ recorders = <<[state |-> "inactive", phase |-> "stopped"]>>
    /\ chunks = <<[rec |-> 1, data |-> <<1>>]>>
    /\ awaiting = 0
    /\ dispatching = 0
    /\ \E b \in HexBodies :
          uploads = <<[rec |-> 1, payload |-> <<1>>, status |-> "parsing",
                       body |-> b, toggled |-> FALSE]>>
    /\ src = [url |-> 0, bytes |-> <<>>]
    /\ denied = 0

HexNext == \E u \in 1..Len(uploads) : JsonSettled(u)

HexSpec == HexInit /\ [][HexNext]_vars

----------------------------------------------------------------------------
(* Properties *)

Recorders == 1..Len(recorders)
Uploads == 1..Len(uploads)

ActiveCaptures == {r \in Recorders : Recording(r)}

\* C1: in every reachable state at most one capture handle is in the
\* recording state.
AtMostOneActiveCapture == Cardinality(ActiveCaptures) <= 1

\* the chunks recorder r has delivered, in delivery order
RECURSIVE ChunksOf(_, _)
ChunksOf(r, buf) ==
    IF buf = <<>> THEN <<>>
    ELSE IF Head(buf).rec = r THEN <<Head(buf)>> \o ChunksOf(r, Tail(buf))
    ELSE ChunksOf(r, Tail(buf))

\* C2: the payload of every upload is the concatenation, in delivery order,
\* of exactly the chunks delivered during the session whose stop issued it.
PayloadIsSessionChunks ==
    \A u \in Uploads : uploads[u].payload = Blob(ChunksOf(uploads[u].rec, chunks))

UploadsOf(r) == {u \in Uploads : uploads[u].rec = r}

StopPending(r) == recorders[r].phase \in {"stopQueued", "flushed"}

\* C3: a granted Toggle leaves the capture handle active, every chunk
\* delivered is appended to the buffer, the next Toggle makes the handle
\* inactive, and each stop leads to exactly one upload: none before its stop
\* event, one from then on, and the stop event does come (no stop stays
\* pending: again and again none is).
ToggleCycle ==
    /\ [][/\ StreamGranted =>
                /\ mediaRecorder' = Len(recorders')
                /\ recorders'[mediaRecorder'].state = "recording"
          /\ \A r \in Recorders, d \in ChunkData :
                (DataAvailable(r, d) \/ StopFlush(r, d)) =>
                    chunks' = Append(chunks, [rec |-> r, data |-> d])
          /\ ToggleStop => recorders'[mediaRecorder].state = "inactive"]_vars
    /\ [](\A r \in Recorders :
            Cardinality(UploadsOf(r)) = IF recorders[r].phase = "stopped" THEN 1 ELSE 0)
    /\ []<>(\A r \in Recorders : ~StopPending(r))

\* a capture that delivered a chunk while running and another when stopped,
\* and whose stop has issued its one upload
ToggleCycleWitness ==
    \E r \in Recorders :
        /\ recorders[r].phase = "stopped"
        /\ Len(ChunksOf(r, chunks)) = 2
        /\ Cardinality(UploadsOf(r)) = 1

\* the bytes as lowercase two-digit hex pairs
EncodeHex(bytes) ==
    [i \in 1..(2 * Len(bytes)) |->
        IF i % 2 = 1 THEN LowerHex[(bytes[(i + 1) \div 2] \div 16) + 1]
                     ELSE LowerHex[(bytes[i \div 2] % 16) + 1]]

LowerHexDigits == {LowerHex[i] : i \in 1..16}

IsHexEncoding(s) == Len(s) % 2 = 0 /\ \A i \in 1..Len(s) : s[i] \in LowerHexDigits

Settled(u) == uploads[u].status \in {"done", "failed"}

\* C4: when the "audio" string is the lowercase two-digit hex encoding of a
\* byte sequence B of any length, zero included, decoding succeeds and the
\* playback source holds exactly B (the only bytes whose encoding is that
\* string).
HexRoundTrip ==
    \A u \in Uploads :
        (Settled(u) /\ uploads[u].body.kind = "audio" /\ IsHexEncoding(uploads[u].body.audio)) =>
            /\ uploads[u].status = "done"
            /\ src.url = u
            /\ EncodeHex(src.bytes) = uploads[u].body.audio

\* C5: a click leaves every request in flight as it was, still pending, while
\* starting or stopping a capture as usual; and when the response of a request
\* that a click has passed arrives, its decoded audio becomes the playback
\* source.
UploadOutlivesToggle ==
    [][/\ Toggle =>
            /\ \A u \in Uploads :
                  InFlight(u) =>
                      /\ uploads'[u].status = uploads[u].status
                      /\ uploads'[u].body = uploads[u].body
                      /\ uploads'[u].payload = uploads[u].payload
            /\ Len(uploads') = Len(uploads)
            /\ IF NoActiveCapture THEN awaiting' = awaiting + 1
               ELSE recorders'[mediaRecorder].state = "inactive"
       /\ \A u \in Uploads :
            (uploads[u].toggled /\ uploads[u].status = "parsing"
                /\ ~DecodeThrows(uploads[u].body) /\ uploads'[u].status # "parsing") =>
                /\ uploads'[u].status = "done"
                /\ src' = [url |-> u, bytes |-> DecodeHex(uploads[u].body.audio)]]_vars

\* a request that was in flight when a click ran has since delivered its audio
UploadOutlivesToggleWitness ==
    \E u \in Uploads :
        /\ uploads[u].toggled
        /\ uploads[u].status = "done"
        /\ src = [url |-> u, bytes |-> <<10, 255, 1>>]

RequestsLeft == Len(recorders) + awaiting + denied < MaxRequests

\* C6: a refused stream request ends the click in an unhandled rejection and
\* nothing else: handle, recorders, buffer, playback source and uploads are
\* unchanged; and after a refusal a click with no active capture can still
\* request the stream.
DenialChangesNothing ==
    /\ [][StreamDenied =>
            /\ denied' = denied + 1
            /\ UNCHANGED <<mediaRecorder, recorders, chunks, src, uploads>>]_vars
    /\ []((denied > 0 /\ NoActiveCapture /\ dispatching = 0 /\ RequestsLeft)
            => ENABLED ToggleStart)

\* one request was refused, and the other one's capture is running with a
\* chunk in the buffer
DenialWitness ==
    /\ denied = 1
    /\ awaiting = 0
    /\ mediaRecorder = 1
    /\ Recording(1)
    /\ chunks # <<>>

\* C7: every step leaves the buffer unchanged or appends exactly one chunk at
\* its end; only a chunk delivery changes it; clicks, their continuations,
\* the upload and the response handling leave it unchanged.
ChunksAppendOnly ==
    [][/\ \/ chunks' = chunks
          \/ /\ Len(chunks') = Len(chunks) + 1
             /\ SubSeq(chunks', 1, Len(chunks)) = chunks
       /\ chunks' # chunks =>
            \E r \in Recorders, d \in ChunkData : DataAvailable(r, d) \/ StopFlush(r, d)
       /\ (\/ Toggle \/ StreamGranted \/ StreamDenied
           \/ \E r \in Recorders : StopEvent(r)
           \/ \E u \in Uploads : FetchRejected(u) \/ JsonSettled(u)
           \/ \E u \in Uploads, b \in ResponseBodies : FetchResolved(u, b))
            => chunks' = chunks]_vars

\* a second capture is running after the first one's upload, and the first
\* one's chunks are still at the front of the buffer
ChunksKeptWitness ==
    /\ Len(recorders) = 2
    /\ Recording(2)
    /\ UploadsOf(1) # {}
    /\ Len(chunks) = 2
    /\ chunks[1].rec = 1
    /\ chunks[2].rec = 1

\* the buffer up to and including the last chunk recorder r delivered
ThroughLastChunkOf(r) ==
    LET of == {i \in 1..Len(chunks) : chunks[i].rec = r}
    IN  IF of = {} THEN <<>>
        ELSE SubSeq(chunks, 1, CHOOSE i \in of : \A j \in of : j <= i)

\* C8: a click on an active capture only requests the stop (no stream
\* request, no new handle, no upload by the click itself); the upload of a
\* capture exists only after its stop event and its payload reaches through
\* the last chunk that capture delivered.
StopFlushesBeforeUpload ==
    /\ [][ToggleStop =>
            /\ awaiting' = awaiting
            /\ Len(recorders') = Len(recorders)
            /\ mediaRecorder' = mediaRecorder
            /\ Len(uploads') = Len(uploads)]_vars
    /\ [](\A u \in Uploads :
            /\ recorders[uploads[u].rec].phase = "stopped"
            /\ ChunksOf(uploads[u].rec, chunks) # <<>>
            /\ uploads[u].payload = Blob(ThroughLastChunkOf(uploads[u].rec)))

\* an upload whose capture delivered <<1>> while running and <<2, 3>> on stop
StopFlushWitness ==
    \E u \in Uploads :
        /\ ChunksOf(uploads[u].rec, chunks) =
              <<[rec |-> uploads[u].rec, data |-> <<1>>],
                [rec |-> uploads[u].rec, data |-> <<2, 3>>]>>
        /\ uploads[u].payload = <<1, 2, 3>>

IsOddHex(s) == Len(s) % 2 = 1 /\ \A i \in 1..Len(s) : s[i] \in HexDigits

\* what the claim says 2k+1 hex digits decode to: the k leading pairs, then
\* the lone last digit
OddHexBytes(s) ==
    [i \in 1..((Len(s) + 1) \div 2) |->
        IF 2 * i <= Len(s) THEN 16 * DigitVal(s[2 * i - 1]) + DigitVal(s[2 * i])
        ELSE DigitVal(s[Len(s)])]

\* C9: an "audio" string of 2k+1 hex digits is decoded without error into
\* k+1 bytes, the k leading pairs and then the lone last digit, and these
\* bytes are assigned as the playback source.
OddHexAccepted ==
    \A u \in Uploads :
        (Settled(u) /\ uploads[u].body.kind = "audio" /\ IsOddHex(uploads[u].body.audio)) =>
            /\ uploads[u].status = "done"
            /\ src = [url |-> u, bytes |-> OddHexBytes(uploads[u].body.audio)]

\* the string "0af" has been decoded to the bytes 0x0a, 0x0f
OddHexWitness ==
    /\ uploads[1].status = "done"
    /\ uploads[1].body.audio = <<"0", "a", "f">>
    /\ src = [url |-> 1, bytes |-> <<10, 15>>]

\* C10: a failing upload (request failed, body not JSON, no audio field)
\* leaves playback source, capture handle, recorders and buffer as they
\* were, its failure handled by nothing; and with a failed upload behind it
\* the controller still takes a click: a start when no capture is active, a
\* stop otherwise.
FailedUploadChangesNothing ==
    /\ [][\A u \in Uploads :
            (uploads[u].status # "failed" /\ uploads'[u].status = "failed") =>
                UNCHANGED <<src, mediaRecorder, recorders, chunks>>]_vars
    /\ []((dispatching = 0 /\ \E u \in Uploads : uploads[u].status = "failed") =>
            IF NoActiveCapture THEN RequestsLeft => ENABLED ToggleStart
            ELSE ENABLED ToggleStop)

\* the first upload failed for want of an audio field, the source is still
\* unset, and a second capture is running
FailedUploadWitness ==
    /\ Len(uploads) = 1
    /\ uploads[1].status = "failed"
    /\ uploads[1].body = NoAudio
    /\ src = [url |-> 0, bytes |-> <<>>]
    /\ mediaRecorder = 2
    /\ Recording(2)

\* C11: once several uploads have been issued and every one of them has
\* delivered its audio, the playback source is the audio decoded from the
\* response to the upload issued last, whatever the order of the responses.
LatestUploadPlays ==
    (Len(uploads) >= 2 /\ \A u \in Uploads : uploads[u].status = "done") =>
        src.bytes = DecodeHex(uploads[Len(uploads)].body.audio)

====
